---- MODULE Spec2Model ----
(***************************************************************************)
(* vectorctl: the migration driver (vectorctl-migration/src/migrator.rs),  *)
(* the revision graph (migration/src/revision.rs) and the qdrant ledger    *)
(* (backend/src/qdrant.rs).                                                *)
(*                                                                         *)
(* Indices are 1-based here (Rust: 0-based); 0 stands for Option::None of  *)
(* an index or of a Uuid, the string None for Option::None of a revision.  *)
(***************************************************************************)
EXTENDS Integers, Sequences, FiniteSets, TLC

\* ---------------------------------------------------------------- bounds
\* longest declared chain r1 <- r2 <- ... <- rN
MaxN == 3
\* driver invocations issued by one process
MaxInvocations == 2

\* ------------------------------------------------------------- constants
None == "None"
NoId == 0
NoIx == 0
\* a revision id that no declared migration carries
UnknownRev == "zz"
\* default page size of the store's scroll operation
ScrollLimit == 10

RevIds == <<"a", "b", "c", "d", "e">>
NameOf == <<"A", "B", "C", "D", "E">>

\* ------------------------------------------------------------- utilities
Range(s) == {s[i] : i \in DOMAIN s}

Min(S) == CHOOSE x \in S : \A y \in S : x <= y
Max(S) == CHOOSE x \in S : \A y \in S : y <= x

RECURSIVE Ascending(_)
Ascending(S) == IF S = {} THEN <<>>
                ELSE <<Min(S)>> \o Ascending(S \ {Min(S)})

RECURSIVE SelectSeqBy(_, _)
\* the subsequence of s at the positions in keep
SelectSeqBy(s, keep) ==
    IF s = <<>> THEN <<>>
    ELSE LET rest == SelectSeqBy(Tail(s), {i - 1 : i \in keep \ {1}})
         IN IF 1 \in keep THEN <<Head(s)>> \o rest ELSE rest

\* --------------------------------------------------- declared migrations
\* the k-th migration of the chain: MigrationTrait::name / revision
Runner(k) == [name          |-> NameOf[k],
              revision      |-> RevIds[k],
              down_revision |-> IF k = 1 THEN None ELSE RevIds[k - 1]]

\* the chain r1 <- ... <- rn declared with rk first, the others in chain order
Declared(n, k) ==
    [i \in 1..n |-> Runner(IF i = 1 THEN k ELSE IF i <= k THEN i - 1 ELSE i)]

\* every linear chain of 1..MaxN migrations, with each of its migrations as
\* the first one declared
Declarations == UNION {{Declared(n, k) : k \in 1..n} : n \in 1..MaxN}

\* one migration that names itself as its down_revision: it is its own
\* child, so try_from finds no head and build_graph fails
Looped == <<[name |-> NameOf[1], revision |-> RevIds[1], down_revision |-> RevIds[1]]>>

\* -------------------------------------------------------- revision graph
\* RevisionGraph::try_from, first pass: last insert of a revision wins
IndexOf(migrations) ==
    [r \in {migrations[i].runner.revision : i \in DOMAIN migrations} |->
        Max({i \in DOMAIN migrations : migrations[i].runner.revision = r})]

\* RevisionGraph::try_from, second pass: the parent a node links to
ParentOf(migrations, ix) ==
    LET down == migrations[ix].runner.down_revision
        index == IndexOf(migrations)
    IN IF down # None /\ down \in DOMAIN index THEN index[down] ELSE NoIx

\* children are pushed in the order the loop 0..len visits them
ChildrenOf(migrations, p) ==
    Ascending({ix \in DOMAIN migrations : ParentOf(migrations, ix) = p})

GraphNodes(migrations) ==
    [ix \in DOMAIN migrations |->
        [revision  |-> migrations[ix].runner.revision,
         children  |-> ChildrenOf(migrations, ix),
         migration |-> migrations[ix],
         parent    |-> ParentOf(migrations, ix)]]

\* a head search that settles for the first node when none is childless
HeadIxOrFirst(nodes) ==
    LET childless == {i \in DOMAIN nodes : nodes[i].children = <<>>}
    IN IF childless # {} THEN Min(childless)
       ELSE IF nodes = <<>> THEN NoIx ELSE 1

\* position(|n| n.children.is_empty())
HeadIx(nodes) ==
    LET childless == {ix \in DOMAIN nodes : nodes[ix].children = <<>>}
    IN IF childless = {} THEN NoIx ELSE Min(childless)

GraphErr == [err |-> "NotFound(head)"]

try_from(migrations) ==
    LET nodes == GraphNodes(migrations)
    IN IF HeadIx(nodes) = NoIx THEN GraphErr
       ELSE [nodes   |-> nodes,
             index   |-> IndexOf(migrations),
             head_ix |-> HeadIx(nodes)]

ix(g, rev) == IF rev \in DOMAIN g.index THEN g.index[rev] ELSE NoIx

child_ix(g, i) == IF g.nodes[i].children = <<>> THEN NoIx ELSE g.nodes[i].children[1]

parent_ix(g, i) == g.nodes[i].parent

head(g) == g.nodes[g.head_ix].revision

queue(g) == g.nodes[1].revision

\* RevisionGraph::get: the migration at the position the index gives for rev
get(g, rev) == IF ix(g, rev) = NoIx THEN None ELSE g.nodes[ix(g, rev)].migration

RECURSIVE ChildChain(_, _, _, _)
\* successors(start, child_ix).take_while(!= target); a trailing NoIx marks
\* a chain that is still running after fuel steps (it never ends)
ChildChain(g, i, target, fuel) ==
    IF i = NoIx \/ i = target THEN <<>>
    ELSE IF fuel = 0 THEN <<NoIx>>
    ELSE <<i>> \o ChildChain(g, child_ix(g, i), target, fuel - 1)

RECURSIVE ParentChainThroughStop(_, _, _, _)
\* the predecessor chain that runs through stop instead of ending before it
ParentChainThroughStop(g, i, stop, fuel) ==
    IF i = NoIx THEN <<>>
    ELSE IF i = stop THEN <<i>>
    ELSE IF fuel = 0 THEN <<NoIx>>
    ELSE <<i>> \o ParentChainThroughStop(g, parent_ix(g, i), stop, fuel - 1)

RECURSIVE ParentChain(_, _, _, _)
\* successors(start, parent_ix).take_while(Some(ix) != stop)
ParentChain(g, i, stop, fuel) ==
    IF i = NoIx \/ i = stop THEN <<>>
    ELSE IF fuel = 0 THEN <<NoIx>>
    ELSE <<i>> \o ParentChain(g, parent_ix(g, i), stop, fuel - 1)

Diverges(ixs) == NoIx \in Range(ixs)

\* the successor chain left without its target
forward_path_open(g, current, target) ==
    LET start_ix == IF current = None THEN NoIx ELSE ix(g, current)
        target_ix == ix(g, target)
    IN ChildChain(g, start_ix, target_ix, Len(g.nodes))

\* a forward_path that has no path when there is no start
forward_path_some(g, current, target) ==
    LET start_ix == IF current = None THEN NoIx ELSE ix(g, current)
        target_ix == ix(g, target)
    IN IF current = None THEN <<>>
       ELSE ChildChain(g, start_ix, target_ix, Len(g.nodes)) \o <<target_ix>>

\* a forward_path that starts at the first node when there is no start
forward_path_from_queue(g, current, target) ==
    LET start_ix == IF current = None THEN 1 ELSE ix(g, current)
        target_ix == ix(g, target)
    IN ChildChain(g, start_ix, target_ix, Len(g.nodes)) \o <<target_ix>>

\* forward_path as node indices; target must exist (the code panics else)
forward_path(g, current, target) ==
    LET start_ix == IF current = None THEN NoIx ELSE ix(g, current)
        target_ix == ix(g, target)
    IN ChildChain(g, start_ix, target_ix, Len(g.nodes)) \o <<target_ix>>

\* a backward_path that pays no attention to stop
backward_path_unstopped(g, current, stop) ==
    LET start_ix == IF current = None THEN NoIx ELSE ix(g, current)
    IN ParentChain(g, start_ix, NoIx, Len(g.nodes))

\* backward_path as node indices
backward_path(g, current, stop) ==
    LET stop_ix == IF stop = None THEN NoIx ELSE ix(g, stop)
        start_ix == IF current = None THEN NoIx ELSE ix(g, current)
    IN ParentChain(g, start_ix, stop_ix, Len(g.nodes))


\* ----------------------------------------------------------------- ledger
\* Ledger::retrieve: one scroll page in id order, collected into a map
\* (a later record of the same name replaces an earlier one)
Retrieve(pts) ==
    LET page == {p \in pts : Cardinality({q \in pts : q.id < p.id}) < ScrollLimit}
    IN [n \in {p.name : p \in page} |-> Max({p.id : p \in {q \in page : q.name = n}})]

\* Ledger::insert_many: one point per name, each with a fresh Uuid::now_v7
InsertPoints(names, firstId) ==
    {[id |-> firstId + i - 1, name |-> names[i]] : i \in DOMAIN names}

\* the store applying a delete_points operation
DeletePoints(pts, ids) == {p \in pts : p.id \notin ids}

RECURSIVE ApplyAll(_, _)
ApplyAll(pts, ops) ==
    IF ops = <<>> THEN pts ELSE ApplyAll(DeletePoints(pts, Head(ops)), Tail(ops))

\* ------------------------------------------------------------------ state
VARIABLES
    decl,          \* Self::migrations(): the declared migrations, in order
    collection,    \* the ledger collection exists in the store
    points,        \* the records of the ledger collection
    pendingDel,    \* delete operations accepted by the store, not yet applied
    nextId,        \* source of fresh record identifiers
    GRAPH,         \* the process-wide OnceCell<RevisionGraph>
    pc,            \* position of the driver inside exec
    direction,     \* Direction of the running invocation
    to,            \* its target revision
    leg,           \* "down" (run_down) or "up" (run_up)
    collected,     \* exec's filtered path: <<(id, runner)>>
    elems,         \* try_join_all's futures, one state per path entry
    cur,           \* the element the running poll of try_join_all is at
    roundPending,  \* an element of the running poll returned Pending
    trace,         \* the calls the running (or last) invocation has made
    printed,       \* the lines the running (or last) invocation printed
    result,        \* outcome of the last invocation
    applied0,      \* what this invocation's retrieve() returned
    start,         \* the store when this invocation was issued
    invocations,   \* invocations begun by this process
    past,          \* what came before the running (or last) invocation
    resources,     \* Context::resources: the value held for each type
    query,         \* the last call made on a component by itself
    answer         \* what that call returned

vars == <<decl, collection, points, pendingDel, nextId, GRAPH, pc, direction, to,
          leg, collected, elems, cur, roundPending, trace, printed, result,
          applied0, start, invocations, past, resources, query, answer>>

\* the state of the driver and of its process
execVars == <<pc, direction, to, leg, collected, elems, cur, roundPending, trace,
              printed, result, applied0, start, invocations, past>>

\* the state of the store
storeVars == <<collection, points, pendingDel, nextId>>

\* the components exercised on their own
unitVars == <<resources, query, answer>>

NoQuery == [op |-> "none"]
NoAnswer == [ret |-> "none", val |-> <<>>]

\* a context as Context::new leaves it: no resource
NoResources == <<>>

NoGraph == [err |-> "uninitialised"]

\* nothing was invoked before: clean = the process found an empty ledger and
\* every invocation it has completed returned Ok; up = the invocation just
\* before was an up(to=none) that returned Ok
NoPast == [clean |-> FALSE, up |-> FALSE]

\* a call made by the driver: a user action started (or its Err), a ledger
\* write; open = the user actions started and not yet completed at the call
Event(op, name, open) == [op |-> op, name |-> name, open |-> open]

DeclaredRevs == {decl[i].revision : i \in DOMAIN decl}
DeclaredNames == {decl[i].name : i \in DOMAIN decl}

\* the ledgers a process can find: any subset of the declared names recorded
InitialPoints(d) ==
    {{[id |-> k, name |-> d[k].name] : k \in S} : S \in SUBSET DOMAIN d}

Init ==
    /\ decl \in Declarations \union {Looped}
    /\ collection \in BOOLEAN
    /\ points \in IF collection THEN InitialPoints(decl) ELSE {{}}
    /\ pendingDel = <<>>
    /\ nextId = MaxN + 1
    /\ GRAPH = NoGraph
    /\ pc = "idle"
    /\ direction = "Up"
    /\ to = None
    /\ leg = "up"
    /\ collected = <<>>
    /\ elems = <<>>
    /\ cur = 1
    /\ roundPending = FALSE
    /\ trace = <<>>
    /\ printed = <<>>
    /\ result = "none"
    /\ applied0 = <<>>
    /\ start = [points |-> points, pending |-> pendingDel]
    /\ invocations = 0
    /\ past = NoPast
    /\ resources = NoResources
    /\ query = NoQuery
    /\ answer = NoAnswer

\* ---------------------------------------------------------------- driver
\* build_graph: the migrations annotated from the applied map
Annotate(applied) ==
    [i \in DOMAIN decl |->
        LET id == IF decl[i].name \in DOMAIN applied THEN applied[decl[i].name] ELSE NoId
        IN [runner |-> decl[i],
            id     |-> id,
            status |-> IF id # NoId THEN "Applied" ELSE "Pending"]]

\* GRAPH.get_or_try_init: an initialised cell is returned as it is
build_graph(cell, applied) ==
    IF cell # NoGraph THEN cell ELSE try_from(Annotate(applied))

IsGraph(g) == "nodes" \in DOMAIN g

\* exec: the path of the direction, as node indices
ExecPath(g, d, t) ==
    CASE d = "Up"      -> forward_path(g, head(g), IF t = None THEN queue(g) ELSE t)
      [] d = "Down"    -> backward_path(g, queue(g), t)
      [] d = "Refresh" -> backward_path(g, queue(g), None)

\* a filter that lets every status through
KeepsAll(d, status) == TRUE

\* exec: the status a direction keeps
Keeps(d, status) ==
    IF d = "Up" THEN status = "Pending" ELSE status = "Applied"

\* exec: filter by status, then map to (id, runner)
ExecFilter(g, d, path) ==
    LET kept == SelectSeqBy(path, {i \in DOMAIN path : Keeps(d, g.nodes[path[i]].migration.status)})
    IN [i \in DOMAIN kept |-> [id     |-> g.nodes[kept[i]].migration.id,
                               runner |-> g.nodes[kept[i]].migration.runner]]

Fresh(items) == [i \in DOMAIN items |-> "new"]

\* what lies behind an invocation at the moment it is issued
Behind ==
    [clean |-> IF invocations = 0 THEN points = {} /\ pendingDel = <<>>
               ELSE past.clean /\ pc = "idle" /\ result = "ok",
     up    |-> invocations > 0 /\ direction = "Up" /\ to = None /\ result = "ok"]

Return(r) ==
    /\ pc' = "idle"
    /\ result' = r

\* up / down / refresh / reset: exec is entered and awaits ledger.ensure()
Exec(d, t, ok) ==
    /\ pc = "idle"
    /\ invocations < MaxInvocations
    /\ invocations' = invocations + 1
    /\ past' = Behind
    /\ direction' = d
    /\ to' = t
    /\ trace' = <<>>
    /\ printed' = <<>>
    /\ applied0' = <<>>
    /\ start' = [points |-> points, pending |-> pendingDel]
    /\ collected' = <<>>
    /\ elems' = <<>>
    /\ cur' = 1
    /\ roundPending' = FALSE
    /\ leg' = IF d = "Up" THEN "up" ELSE "down"
    /\ IF ok
       THEN /\ collection' = TRUE
            /\ pc' = "retrieve"
            /\ result' = "none"
       ELSE /\ Return("err")
            /\ UNCHANGED collection
    /\ UNCHANGED <<decl, points, pendingDel, nextId, GRAPH>>
    /\ UNCHANGED unitVars

\* exec: retrieve, build_graph, the path and its filter
Plan(ok) ==
    /\ pc = "retrieve"
    /\ IF ~ok
       THEN /\ Return("err")
            /\ UNCHANGED <<GRAPH, collected, elems, applied0>>
       ELSE LET applied == Retrieve(points)
                g == build_graph(GRAPH, applied)
            IN /\ applied0' = applied
               /\ IF ~IsGraph(g)
                  THEN /\ Return("err")
                       /\ UNCHANGED <<GRAPH, collected, elems>>
                  ELSE /\ GRAPH' = g
                       /\ IF direction = "Up" /\ to # None /\ ix(g, to) = NoIx
                          THEN /\ Return("panic")
                               /\ UNCHANGED <<collected, elems>>
                          ELSE LET path == ExecPath(g, direction, to)
                               IN IF Diverges(path)
                                  THEN /\ pc' = "hung"
                                       /\ UNCHANGED <<result, collected, elems>>
                                  ELSE /\ collected' = ExecFilter(g, direction, path)
                                       /\ elems' = Fresh(collected')
                                       /\ pc' = "leg_ensure"
                                       /\ UNCHANGED result
    /\ UNCHANGED <<decl, collection, points, pendingDel, nextId, direction, to, leg,
                   cur, roundPending, trace, start, printed, invocations, past>>
    /\ UNCHANGED unitVars

Outcomes == {"pending", "ok", "err"}

\* TryJoinAll::poll visits the elements in order; a done element is skipped
NextCur(c, els) ==
    Min({j \in DOMAIN els : j > c /\ els[j] # "done"} \union {Len(els) + 1})

\* run_down / run_up: ledger.ensure(), then try_join_all is created
LegEnsure(ok) ==
    /\ pc = "leg_ensure"
    /\ IF ok
       THEN /\ pc' = "poll"
            /\ UNCHANGED result
       ELSE Return("err")
    /\ cur' = NextCur(0, elems)
    /\ roundPending' = FALSE
    /\ UNCHANGED <<decl, collection, points, pendingDel, nextId, GRAPH, direction, to,
                   leg, collected, elems, trace, applied0, start, printed, invocations, past>>
    /\ UNCHANGED unitVars

\* the user actions that have been started and have not completed
Running == {collected[i].runner.name : i \in {j \in DOMAIN elems : elems[j] = "pending"}}

\* an Err that ends the join but is not propagated by exec (no ? after
\* the await): the leg goes on to its ledger write
AbortSwallowed(name, started) ==
    /\ elems' = [elems EXCEPT ![cur] = "done"]
    /\ trace' = trace \o started \o <<Event(leg \o "_err", name, Running)>>
    /\ cur' = Len(elems) + 1
    /\ roundPending' = FALSE
    /\ UNCHANGED <<pc, result>>

\* a join that keeps going after an element returned Err (join_all)
AbortIgnored(name, started) ==
    /\ elems' = [elems EXCEPT ![cur] = "done"]
    /\ trace' = trace \o started \o <<Event(leg \o "_err", name, Running)>>
    /\ cur' = NextCur(cur, elems)
    /\ UNCHANGED <<pc, result, roundPending>>

\* TryJoinAll::poll: the first element that returns Err ends the join, and
\* the ? after the await returns the error from exec
Abort(name, started) ==
    /\ elems' = [elems EXCEPT ![cur] = "failed"]
    /\ trace' = trace \o started \o <<Event(leg \o "_err", name, Running)>>
    /\ Return("err")
    /\ UNCHANGED <<cur, roundPending>>

\* TryJoinAll::poll polls the element it is at: a future not yet run is
\* started by its first poll, a started one resumed; the user action
\* suspends (again), completes, or fails, which ends the join
PollElem(outcome) ==
    /\ pc = "poll"
    /\ cur <= Len(elems)
    /\ LET item == collected[cur]
           name == item.runner.name
           started == IF elems[cur] = "new"
                      THEN <<Event(leg \o "_start", name, Running)>> ELSE <<>>
       IN IF elems[cur] = "new" /\ leg = "down" /\ item.id = NoId
          THEN \* id_opt.ok_or_else(NotFound)?: down is not called
               /\ outcome = "err"
               /\ elems' = [elems EXCEPT ![cur] = "failed"]
               /\ Return("err")
               /\ UNCHANGED <<trace, roundPending, cur>>
          ELSE CASE outcome = "pending" ->
                      /\ elems' = [elems EXCEPT ![cur] = "pending"]
                      /\ trace' = trace \o started
                      /\ roundPending' = TRUE
                      /\ cur' = NextCur(cur, elems)
                      /\ UNCHANGED <<pc, result>>
                 [] outcome = "ok" ->
                      /\ elems' = [elems EXCEPT ![cur] = "done"]
                      /\ trace' = trace \o started
                      /\ cur' = NextCur(cur, elems)
                      /\ UNCHANGED <<pc, result, roundPending>>
                 [] outcome = "err" -> Abort(name, started)
    /\ UNCHANGED <<decl, collection, points, pendingDel, nextId, GRAPH, direction, to,
                   leg, collected, applied0, start, printed, invocations, past>>
    /\ UNCHANGED unitVars

\* TryJoinAll::poll has visited every element and returned Pending: the
\* task is polled again when one of the suspended actions wakes it
Repoll ==
    /\ pc = "poll"
    /\ cur > Len(elems)
    /\ roundPending
    /\ cur' = NextCur(0, elems)
    /\ roundPending' = FALSE
    /\ UNCHANGED <<decl, collection, points, pendingDel, nextId, GRAPH, pc, direction,
                   to, leg, collected, elems, trace, result, applied0, start, printed, invocations, past>>
    /\ UNCHANGED unitVars

\* the join taken as finished once a poll has visited every element,
\* suspended ones included
JoinedAllVisited == cur > Len(elems)

\* try_join_all(..).await is Ready(Ok): a poll found every element done
JoinedAll == cur > Len(elems) /\ ~roundPending

\* after try_join_all: the ledger write of the leg, then the next leg or Ok
Reconcile(ok) ==
    /\ pc = "poll"
    /\ JoinedAll
    /\ IF collected = <<>>
       THEN /\ ok
            /\ UNCHANGED <<points, pendingDel, nextId, trace>>
       ELSE IF ~ok
       THEN UNCHANGED <<points, pendingDel, nextId, trace>>
       ELSE IF leg = "up"
       THEN \* upsert with wait(true): applied when the call returns
            /\ points' = ApplyAll(points, pendingDel)
                            \union InsertPoints([i \in DOMAIN collected |-> collected[i].runner.name], nextId)
            /\ pendingDel' = <<>>
            /\ nextId' = nextId + Len(collected)
            /\ trace' = Append(trace, Event("insert_many", "ledger", Running))
       ELSE \* delete without wait: accepted when the call returns
            /\ pendingDel' = Append(pendingDel, {collected[i].id : i \in DOMAIN collected})
            /\ trace' = Append(trace, Event("delete_many", "ledger", Running))
            /\ UNCHANGED <<points, nextId>>
    /\ IF ~ok
       THEN /\ Return("err")
            /\ UNCHANGED <<leg, elems>>
       ELSE IF direction = "Refresh" /\ leg = "down"
       THEN /\ leg' = "up"
            /\ elems' = Fresh(collected)
            /\ pc' = "leg_ensure"
            /\ UNCHANGED result
       ELSE /\ Return("ok")
            /\ UNCHANGED <<leg, elems>>
    /\ UNCHANGED <<decl, collection, GRAPH, direction, to, collected, cur,
                   roundPending, applied0, start, printed, invocations, past>>
    /\ UNCHANGED unitVars

\* the store applies the oldest accepted delete operation
StoreApply ==
    /\ pendingDel # <<>>
    /\ points' = DeletePoints(points, Head(pendingDel))
    /\ pendingDel' = Tail(pendingDel)
    /\ UNCHANGED <<decl, collection, nextId, GRAPH, pc, direction, to, leg, collected,
                   elems, cur, roundPending, trace, result, applied0, start,
                   printed, invocations, past>>
    /\ UNCHANGED unitVars

\* println!("Migration `{}`, status: `{}`")
Line(m) == [name |-> m.runner.name, status |-> m.status]

\* status: ensure, retrieve, build_graph, then one line per node of
\*   forward_path(Some(graph.head()), graph.queue())
Status(ensured, retrieved) ==
    /\ pc = "idle"
    /\ invocations < MaxInvocations
    /\ invocations' = invocations + 1
    /\ past' = Behind
    /\ direction' = "Status"
    /\ to' = None
    /\ trace' = <<>>
    /\ start' = [points |-> points, pending |-> pendingDel]
    /\ collected' = <<>>
    /\ elems' = <<>>
    /\ cur' = 1
    /\ roundPending' = FALSE
    /\ leg' = "up"
    /\ collection' = (collection \/ ensured)
    /\ IF ~ensured \/ ~retrieved
       THEN /\ Return("err")
            /\ applied0' = <<>>
            /\ printed' = <<>>
            /\ UNCHANGED GRAPH
       ELSE LET applied == Retrieve(points)
                g == build_graph(GRAPH, applied)
            IN /\ applied0' = applied
               /\ IF ~IsGraph(g)
                  THEN /\ Return("err")
                       /\ printed' = <<>>
                       /\ UNCHANGED GRAPH
                  ELSE LET path == forward_path(g, head(g), queue(g))
                       IN /\ GRAPH' = g
                          /\ IF Diverges(path)
                             THEN /\ pc' = "hung"
                                  /\ printed' = <<>>
                                  /\ UNCHANGED result
                             ELSE /\ Return("ok")
                                  /\ printed' = [i \in DOMAIN path |->
                                                    Line(g.nodes[path[i]].migration)]
    /\ UNCHANGED <<decl, points, pendingDel, nextId>>
    /\ UNCHANGED unitVars

Directions == {"Up", "Down", "Refresh"}

\* a target is given to up and down only (refresh and reset pass None)
Targets(d) == IF d = "Refresh" THEN {None} ELSE {None, UnknownRev} \union DeclaredRevs

Next ==
    \/ \E d \in Directions : \E t \in Targets(d) : \E ok \in BOOLEAN : Exec(d, t, ok)
    \/ \E ok \in BOOLEAN : Plan(ok)
    \/ \E ok \in BOOLEAN : LegEnsure(ok)
    \/ \E outcome \in Outcomes : PollElem(outcome)
    \/ Repoll
    \/ \E ok \in BOOLEAN : Reconcile(ok)
    \/ StoreApply
    \/ \E ensured, retrieved \in BOOLEAN : Status(ensured, retrieved)

Spec == Init /\ [][Next]_vars

\* --------------------------------------------- the revision graph by itself
\* most migrations in a declared set given to RevisionGraph::try_from
MaxNodes == 3

\* the revision ids of n migrations, up to renaming: the i-th one repeats an
\* earlier id or takes the next unused one
RevPatterns(n) ==
    {r \in [1..n -> 1..n] :
        \A i \in 1..n : r[i] <= 1 + Max({0} \union {r[j] : j \in 1..(i - 1)})}

\* a down_revision: none, a declared id, or an id nobody declares
Downs(n) == {None, UnknownRev} \union {RevIds[k] : k \in 1..n}

\* every declared set of up to MaxNodes migrations: chains in any insertion
\* order, forks, several roots, cycles, duplicate ids, unknown parents
GraphDecls ==
    UNION {{[i \in 1..n |-> [name          |-> NameOf[i],
                             revision      |-> RevIds[r[i]],
                             down_revision |-> d[i]]] :
                r \in RevPatterns(n), d \in [1..n -> Downs(n)]} : n \in 0..MaxNodes}

\* the driver at rest, its store empty
Quiet ==
    /\ collection = FALSE
    /\ points = {}
    /\ pendingDel = <<>>
    /\ nextId = 1
    /\ pc = "idle"
    /\ direction = "Up"
    /\ to = None
    /\ leg = "up"
    /\ collected = <<>>
    /\ elems = <<>>
    /\ cur = 1
    /\ roundPending = FALSE
    /\ trace = <<>>
    /\ printed = <<>>
    /\ result = "none"
    /\ applied0 = <<>>
    /\ start = [points |-> {}, pending |-> <<>>]
    /\ invocations = 0
    /\ past = NoPast

GraphInit ==
    /\ decl \in GraphDecls
    /\ GRAPH = NoGraph
    /\ resources = NoResources
    /\ query = NoQuery
    /\ answer = NoAnswer
    /\ Quiet

\* RevisionGraph::try_from(migrations)
TryFrom ==
    /\ GRAPH = NoGraph
    /\ GRAPH' = try_from(Annotate(<<>>))
    /\ query' = [op |-> "try_from", current |-> None, target |-> None]
    /\ answer' = [ret |-> IF IsGraph(GRAPH') THEN "ok" ELSE "err", val |-> <<>>]
    /\ UNCHANGED <<decl, resources, storeVars, execVars>>

\* the graph is immutable once built: a path operation leaves nothing
\* behind, so each is applied to the graph as try_from returned it
Built == IsGraph(GRAPH) /\ query.op = "try_from"

\* what a path operation returns: the nodes, or nothing when it never ends
Returned(path) ==
    IF Diverges(path) THEN [ret |-> "never", val |-> <<>>]
    ELSE [ret |-> "ok", val |-> path]

\* graph.forward_path(current, target); expect() panics on an unknown target
ForwardPath(current, target) ==
    /\ Built
    /\ query' = [op |-> "forward_path", current |-> current, target |-> target]
    /\ answer' = IF ix(GRAPH, target) = NoIx
                 THEN [ret |-> "panic", val |-> <<>>]
                 ELSE Returned(forward_path(GRAPH, current, target))
    /\ UNCHANGED <<decl, GRAPH, resources, storeVars, execVars>>

\* graph.backward_path(current, stop)
BackwardPath(current, stop) ==
    /\ Built
    /\ query' = [op |-> "backward_path", current |-> current, target |-> stop]
    /\ answer' = Returned(backward_path(GRAPH, current, stop))
    /\ UNCHANGED <<decl, GRAPH, resources, storeVars, execVars>>

\* an Option<&str> argument: none, a declared id, an undeclared one
GraphArgs == {None, UnknownRev} \union DeclaredRevs

GraphNext ==
    \/ TryFrom
    \/ \E current \in GraphArgs : \E target \in GraphArgs \ {None} :
          ForwardPath(current, target)
    \/ \E current \in GraphArgs : \E stop \in GraphArgs : BackwardPath(current, stop)

GraphSpec == GraphInit /\ [][GraphNext]_vars

\* ----------------------------------------------------- the ledger by itself
\* most records the ledger holds when a runner finds it
MaxRecords == 10
\* ledger calls made by one runner
MaxCalls == 3

\* names of migrations already recorded, and names not yet recorded
RecordName == <<"m01", "m02", "m03", "m04", "m05", "m06",
                "m07", "m08", "m09", "m10", "m11", "m12">>
NewNames == {"x", "y"}

\* a ledger of k records, written in the order of their names
Stored(k) == {[id |-> i, name |-> RecordName[i]] : i \in 1..k}

LedgerInit ==
    /\ decl = <<>>
    /\ GRAPH = NoGraph
    /\ collection \in BOOLEAN
    /\ points \in IF collection THEN {Stored(k) : k \in 0..MaxRecords} ELSE {{}}
    /\ pendingDel = <<>>
    /\ nextId = MaxRecords + 1
    /\ pc = "idle"
    /\ direction = "Up"
    /\ to = None
    /\ leg = "up"
    /\ collected = <<>>
    /\ elems = <<>>
    /\ cur = 1
    /\ roundPending = FALSE
    /\ trace = <<>>
    /\ printed = <<>>
    /\ result = "none"
    /\ applied0 = <<>>
    /\ start = [points |-> points, pending |-> pendingDel, collection |-> collection]
    /\ invocations = 0
    /\ past = NoPast
    /\ resources = NoResources
    /\ query = [op |-> "none", arg |-> <<>>, up |-> TRUE, prev |-> NoQuery]
    /\ answer = NoAnswer

\* a call on the ledger, which the store answers (up) or not: it is the next
\* call of the runner; the call before it and the store it found are
\* remembered
Call(op, arg, up) ==
    /\ invocations < MaxCalls
    /\ invocations' = invocations + 1
    /\ query' = [op |-> op, arg |-> arg, up |-> up,
                 prev |-> [op |-> query.op, arg |-> query.arg, ret |-> answer.ret]]
    /\ start' = [points |-> points, pending |-> pendingDel, collection |-> collection]
    /\ UNCHANGED <<decl, GRAPH, resources, pc, direction, to, leg, collected, elems,
                   cur, roundPending, trace, printed, result, applied0, past>>

\* a store call that failed (or that found no collection)
Failed == [ret |-> "err", val |-> <<>>]

\* an ensure that creates the collection without asking whether it exists:
\* the store refuses to create a collection that is already there
EnsureAlwaysCreate(ok) ==
    /\ Call("ensure", <<>>, ok)
    /\ answer' = IF ok /\ ~collection THEN [ret |-> "ok", val |-> <<>>] ELSE Failed
    /\ collection' = (collection \/ ok)
    /\ UNCHANGED <<points, pendingDel, nextId>>

\* Ledger::ensure: collection_exists, and create_collection only if not
Ensure(ok) ==
    /\ Call("ensure", <<>>, ok)
    /\ answer' = IF ok THEN [ret |-> "ok", val |-> <<>>] ELSE Failed
    /\ collection' = (collection \/ ok)
    /\ UNCHANGED <<points, pendingDel, nextId>>

\* Ledger::retrieve
RetrieveCall(ok) ==
    /\ Call("retrieve", <<>>, ok)
    /\ answer' = IF ok /\ collection THEN [ret |-> "ok", val |-> Retrieve(points)]
                 ELSE Failed
    /\ UNCHANGED storeVars

\* Ledger::insert_many: upsert_points(..).wait(true)
InsertMany(names, ok) ==
    /\ Call("insert_many", names, ok)
    /\ IF ok /\ collection
       THEN /\ points' = ApplyAll(points, pendingDel) \union InsertPoints(names, nextId)
            /\ pendingDel' = <<>>
            /\ nextId' = nextId + Len(names)
            /\ answer' = [ret |-> "ok", val |-> <<>>]
       ELSE /\ answer' = Failed
            /\ UNCHANGED <<points, pendingDel, nextId>>
    /\ UNCHANGED collection

\* Ledger::delete_many: delete_points(..), no wait
DeleteMany(ids, ok) ==
    /\ Call("delete_many", ids, ok)
    /\ IF ok /\ collection
       THEN /\ pendingDel' = Append(pendingDel, ids)
            /\ answer' = [ret |-> "ok", val |-> <<>>]
       ELSE /\ answer' = Failed
            /\ UNCHANGED pendingDel
    /\ UNCHANGED <<collection, points, nextId>>

\* the names a runner inserts: one new name, two, or a name already recorded
InsertArgs == {<<"x">>, <<"x", "y">>, <<RecordName[1]>>}

\* the handles a runner deletes: the oldest or the newest record
DeleteArgs ==
    IF points = {} THEN {{}}
    ELSE {{Min({p.id : p \in points})}, {Max({p.id : p \in points})}}

LedgerNext ==
    \/ \E ok \in BOOLEAN : Ensure(ok)
    \/ \E ok \in BOOLEAN : RetrieveCall(ok)
    \/ \E names \in InsertArgs : \E ok \in BOOLEAN : InsertMany(names, ok)
    \/ \E ids \in DeleteArgs : \E ok \in BOOLEAN : DeleteMany(ids, ok)
    \/ StoreApply

LedgerSpec == LedgerInit /\ [][LedgerNext]_vars

\* ---------------------------------------------------- the context by itself
\* the resource types a migration asks for, and the values given for them
Types == {"T1", "T2", "T3"}
Values == {"v", "w"}

\* Box<dyn Any>: a value together with the type it was boxed as
Boxed(T, v) == [type |-> T, val |-> v]

\* an insert that leaves an entry that is already there
insert_if_absent(res, T, v) ==
    [U \in DOMAIN res \union {T} |-> IF U \in DOMAIN res THEN res[U] ELSE Boxed(T, v)]

\* Resource::insert: self.0.insert(TypeId::of::<R>(), Box::new(resource))
insert(res, T, v) ==
    [U \in DOMAIN res \union {T} |-> IF U = T THEN Boxed(T, v) ELSE res[U]]

\* Resource::insert_many: the map adapter is dropped without being run
insert_many(res, T, vs) == res

\* Context::resource_opt: get(&TypeId::of::<R>()).and_then(downcast_ref)
resource_opt(res, T) ==
    IF T \in DOMAIN res /\ res[T].type = T
    THEN [ret |-> "ok", val |-> res[T].val]
    ELSE [ret |-> "none", val |-> <<>>]

\* Context::resource: ok_or_else(ContextError::Resource(..))
resource(res, T) ==
    IF resource_opt(res, T).ret = "ok" THEN resource_opt(res, T)
    ELSE [ret |-> "err", val |-> "Resource"]

\* Context::resource_unchecked: unwrap_or_else(panic!)
resource_unchecked(res, T) ==
    IF resource_opt(res, T).ret = "ok" THEN resource_opt(res, T)
    ELSE [ret |-> "panic", val |-> <<>>]

ContextInit ==
    /\ decl = <<>>
    /\ GRAPH = NoGraph
    /\ resources = NoResources
    /\ query = NoQuery
    /\ answer = NoAnswer
    /\ Quiet

\* a call on the context is logged with what it returned
Logged(op, T, arg, ret) ==
    /\ Len(trace) < MaxCalls
    /\ query' = [op |-> op, type |-> T, arg |-> arg]
    /\ answer' = ret
    /\ trace' = Append(trace, [op |-> op, type |-> T, arg |-> arg, ret |-> ret])
    /\ UNCHANGED <<decl, GRAPH, storeVars, pc, direction, to, leg, collected, elems,
                   cur, roundPending, printed, result, applied0, start, invocations, past>>

Unit == [ret |-> "ok", val |-> <<>>]

\* ctx.insert_resource::<T>(v)
InsertResource(T, v) ==
    /\ Logged("insert_resource", T, v, Unit)
    /\ resources' = insert(resources, T, v)

\* ctx.insert_resources::<T>(vs)
InsertResources(T, vs) ==
    /\ Logged("insert_resources", T, vs, Unit)
    /\ resources' = insert_many(resources, T, vs)

\* ctx.resource::<T>(), ctx.resource_opt::<T>(), ctx.resource_unchecked::<T>()
Lookup(op, T) ==
    /\ Logged(op, T, <<>>,
              CASE op = "resource"           -> resource(resources, T)
                [] op = "resource_opt"       -> resource_opt(resources, T)
                [] op = "resource_unchecked" -> resource_unchecked(resources, T))
    /\ UNCHANGED resources

ContextNext ==
    \/ \E T \in Types : \E v \in Values : InsertResource(T, v)
    \/ \E T \in Types : \E vs \in {<<"v">>, <<"v", "w">>} : InsertResources(T, vs)
    \/ \E T \in Types :
          \E op \in {"resource", "resource_opt", "resource_unchecked"} : Lookup(op, T)

ContextSpec == ContextInit /\ [][ContextNext]_vars

\* ------------------------------------------------ the metadata by itself
\* Revision::date is a &str; the scaffolder's validator accepts YYYY-MM-DD,
\* YYYY-MM-DD HH:MM:SS and YYYY-MM-DDTHH:MM:SS.  A date text is modelled by
\* its fields in the order they are written: the day, then (if a time is
\* given) the byte of the separator and the time of day.  The fields are
\* zero-padded digits of fixed width, so texts compare as these tuples do.
Space == 32
LetterT == 84
Days == 1..2
Clock == 0..1
DateTexts ==
    {<<d>> : d \in Days} \union
    {<<d, sep, t>> : d \in Days, sep \in {Space, LetterT}, t \in Clock}

RECURSIVE StrLess(_, _)
\* Ord for String: bytewise lexicographic, a proper prefix is smaller
StrLess(a, b) ==
    IF b = <<>> THEN FALSE
    ELSE IF a = <<>> THEN TRUE
    ELSE IF Head(a) # Head(b) THEN Head(a) < Head(b)
    ELSE StrLess(Tail(a), Tail(b))

\* Iterator::max_by_key: the last element whose key is maximal
max_by_key(keys) ==
    CHOOSE i \in DOMAIN keys :
        /\ \A j \in DOMAIN keys : ~StrLess(keys[i], keys[j])
        /\ \A j \in DOMAIN keys : j > i => StrLess(keys[j], keys[i])

\* MigratorTrait::latest_revision: the position of the migration returned
latest_revision(migrations) ==
    IF migrations = <<>> THEN [ret |-> "err", val |-> "Missing"]
    ELSE [ret |-> "ok",
          val |-> max_by_key([i \in DOMAIN migrations |-> migrations[i].date])]

\* a migration with its date
Dated(k, date) ==
    [name |-> NameOf[k], revision |-> RevIds[k],
     down_revision |-> IF k = 1 THEN None ELSE RevIds[k - 1], date |-> date]

\* every chain of up to MaxNodes migrations, each with any date text
DatedDecls ==
    UNION {{[k \in 1..n |-> Dated(k, dates[k])] : dates \in [1..n -> DateTexts]} :
              n \in 0..MaxNodes}

LatestInit ==
    /\ decl \in DatedDecls
    /\ GRAPH = NoGraph
    /\ resources = NoResources
    /\ query = NoQuery
    /\ answer = NoAnswer
    /\ Quiet

\* Self::latest_revision()
LatestRevision ==
    /\ query = NoQuery
    /\ query' = [op |-> "latest_revision"]
    /\ answer' = latest_revision(decl)
    /\ UNCHANGED <<decl, GRAPH, resources, storeVars, execVars>>

LatestNext == LatestRevision

LatestSpec == LatestInit /\ [][LatestNext]_vars

\* ------------------------------------------- the scroll page by itself
\* most points in the page the store returns to one scroll request
MaxPage == 2

\* the digits Uuid::try_parse reads, either case, by value
HexLower == <<"0", "1", "2", "3", "4", "5", "6", "7", "8", "9",
              "a", "b", "c", "d", "e", "f">>
HexUpper == <<"0", "1", "2", "3", "4", "5", "6", "7", "8", "9",
              "A", "B", "C", "D", "E", "F">>

\* an identifier text of the right length (the model's identifiers are two
\* digits long)
NilUuid == <<"0", "0">>

IsHex(c) == c \in Range(HexLower) \union Range(HexUpper)

HexValue(c) ==
    IF c \in Range(HexLower) THEN (CHOOSE k \in DOMAIN HexLower : HexLower[k] = c) - 1
    ELSE (CHOOSE k \in DOMAIN HexUpper : HexUpper[k] = c) - 1

RECURSIVE HexNumber(_)
HexNumber(text) ==
    IF text = <<>> THEN 0
    ELSE 16 * HexNumber(SubSeq(text, 1, Len(text) - 1)) + HexValue(text[Len(text)])

\* Uuid::try_parse(s).ok(): NoId stands for None
try_parse(text) ==
    IF Len(text) = Len(NilUuid) /\ \A i \in DOMAIN text : IsHex(text[i])
    THEN HexNumber(text) ELSE NoId

\* point.id as the store sends it: no id, an id without options, a number,
\* or a text
PointIds ==
    {[kind |-> "absent", text |-> <<>>], [kind |-> "empty", text |-> <<>>],
     [kind |-> "num", text |-> <<"1">>]}
    \union {[kind |-> "uuid", text |-> t] :
               t \in {<<"0", "1">>, <<"0", "a">>, <<"0", "A">>, <<"0", "g">>, <<"1">>}}

\* a key read as a number: Num(n) is taken as the identifier n
point_id_or_num(id) ==
    CASE id.kind = "uuid" -> try_parse(id.text)
      [] id.kind = "num"  -> HexNumber(id.text)
      [] OTHER            -> NoId

\* point.id?.point_id_options? matched: Uuid(s) is parsed, Num(_) is None
point_id(id) ==
    CASE id.kind = "uuid" -> try_parse(id.text)
      [] OTHER            -> NoId

\* a payload field: a JSON string, a JSON number, or no such field
Absent == [kind |-> "absent", text |-> ""]
JsonString(text) == [kind |-> "string", text |-> text]
JsonNumber(text) == [kind |-> "number", text |-> text]

\* the one text of the model DateTime<Utc> deserializes from (RFC 3339)
Stamp == "2025-05-22T10:00:00Z"

PointPayloads ==
    {[name |-> n, applied_at |-> t] :
        n \in {JsonString("A"), JsonString("B"), JsonNumber("7"), Absent},
        t \in {JsonString(Stamp), JsonString("2025-05-22")}}

\* Payload::try_from(point.payload).ok(): name: String, applied_at: DateTime<Utc>
payload_try_from(map) ==
    IF map.name.kind = "string" /\ map.applied_at.kind = "string"
          /\ map.applied_at.text = Stamp
    THEN [ret |-> "ok", val |-> [name |-> map.name.text, applied_at |-> map.applied_at.text]]
    ELSE [ret |-> "err", val |-> <<>>]

\* the closure of filter_map: Some((payload.name, id)) or None
Kept(point) ==
    point_id(point.id) # NoId /\ payload_try_from(point.payload).ret = "ok"

\* scroll.result.into_iter().filter_map(..).collect::<HashMap>(): a later
\* pair with the same name replaces an earlier one
ScanPage(page) ==
    LET kept == {i \in DOMAIN page : Kept(page[i])}
        name(i) == payload_try_from(page[i].payload).val.name
    IN [n \in {name(i) : i \in kept} |->
           point_id(page[Max({i \in kept : name(i) = n})].id)]

ScrollPages ==
    UNION {[1..n -> [id : PointIds, payload : PointPayloads]] : n \in 0..MaxPage}

\* the scroll request of retrieve() is in flight, the store about to answer
\* with a page
ScanInit ==
    /\ decl = <<>>
    /\ GRAPH = NoGraph
    /\ resources = NoResources
    /\ query \in {[op |-> "scroll", up |-> TRUE, result |-> page] : page \in ScrollPages}
    /\ answer = NoAnswer
    /\ Quiet

\* Ledger::retrieve once the scroll is answered (or has failed: .await?)
RetrievePage(ok) ==
    /\ query.op = "scroll"
    /\ answer = NoAnswer
    /\ query' = [query EXCEPT !.up = ok]
    /\ answer' = IF ok THEN [ret |-> "ok", val |-> ScanPage(query.result)] ELSE Failed
    /\ UNCHANGED <<decl, GRAPH, resources, storeVars, execVars>>

ScanNext == \E ok \in BOOLEAN : RetrievePage(ok)

ScanSpec == ScanInit /\ [][ScanNext]_vars

\* ============================================================== properties
\* position of a revision / of a migration name in the chain
RankOfRev(r) == CHOOSE k \in DOMAIN RevIds : RevIds[k] = r
RankOfName(n) == CHOOSE k \in DOMAIN NameOf : NameOf[k] = n

\* the names of the chain from the root to rank k inclusive
NamesUpTo(k) == {NameOf[j] : j \in 1..k}

\* the names retrieve() returns for a set of records
LedgerNames(pts) == DOMAIN Retrieve(pts)

\* the ledger once every accepted delete operation is applied
Settled == ApplyAll(points, pendingDel)

EventsOf(op) == {i \in DOMAIN trace : trace[i].op = op}

\* the names of the events of kind op, in the order they happened
NamesOf(op) ==
    LET at == Ascending(EventsOf(op))
    IN [k \in DOMAIN at |-> trace[at[k]].name]

Times(op, name) == Cardinality({i \in EventsOf(op) : trace[i].name = name})

\* the last invocation was direction d with target t and returned Ok
Finished(d, t) == pc = "idle" /\ result = "ok" /\ direction = d /\ to = t

\* the invocation was issued against an empty ledger
StartedEmpty == start.points = {} /\ start.pending = <<>>

\* the invocation was issued with every declared migration recorded
StartedFull == LedgerNames(start.points) = DeclaredNames /\ start.pending = <<>>

ChainABC == Len(decl) = 3
ChainABCInOrder == decl = Declared(3, 1)

\* C1: for the chain a <- b <- c declared in that order and an empty ledger,
\* a successful up(to=none) invokes the up of each of A, B, C exactly once
\* and leaves retrieve() = {A, B, C}
C1_UpAll ==
    (ChainABCInOrder /\ StartedEmpty /\ Finished("Up", None)) =>
        /\ \A n \in {"A", "B", "C"} : Times("up_start", n) = 1
        /\ LedgerNames(points) = {"A", "B", "C"}

\* C2: from an empty ledger, after a successful up(to=r) retrieve() holds
\* exactly the names on the path from the root to r inclusive, and no up
\* beyond r was invoked
C2_UpTo ==
    (StartedEmpty /\ to \in DeclaredRevs /\ Finished("Up", to)) =>
        /\ LedgerNames(points) = NamesUpTo(RankOfRev(to))
        /\ Range(NamesOf("up_start")) \subseteq NamesUpTo(RankOfRev(to))

\* C3: for the chain a <- b <- c with A, B, C recorded, a successful
\* down(to=a) invokes the downs of exactly C and B and leaves the ledger
\* names {A}
C3_DownToA ==
    (ChainABC /\ StartedFull /\ Finished("Down", "a")) =>
        /\ Range(NamesOf("down_start")) = {"C", "B"}
        /\ LedgerNames(Settled) = {"A"}

C5_ResetAll ==
    (Len(decl) >= 2 /\ StartedFull /\ Finished("Down", None)) =>
        /\ Range(NamesOf("down_start")) = DeclaredNames
        /\ LedgerNames(Settled) = {}

\* C6: for the chain a <- b <- c with A, B, C recorded, a successful
\* refresh() invokes the downs of C, B, A in that order, then the ups of
\* A, B, C in that order, and leaves the ledger names {A, B, C}
C6_Refresh ==
    (ChainABC /\ StartedFull /\ Finished("Refresh", None)) =>
        /\ NamesOf("down_start") = <<"C", "B", "A">>
        /\ NamesOf("up_start") = <<"A", "B", "C">>
        /\ \A i \in EventsOf("down_start") : \A j \in EventsOf("up_start") : i < j
        /\ LedgerNames(Settled) = {"A", "B", "C"}

\* what a successful up(to=none) of a fresh process against an empty ledger
\* records: the names exec keeps on its path
FreshUpNames ==
    LET g == try_from(Annotate(<<>>))
        kept == ExecFilter(g, "Up", ExecPath(g, "Up", None))
    IN {kept[i].runner.name : i \in DOMAIN kept}

\* C7: the names in the ledger after a successful refresh() are the names a
\* successful up(to=none) against an empty ledger leaves
C7_RefreshIsFreshUp ==
    Finished("Refresh", None) => LedgerNames(Settled) = FreshUpNames

\* C8: in an Up leg no up is invoked before the up of an ancestor run in the
\* same leg, in a Down leg no down before the down of a descendant
C8_PathOrder ==
    /\ \A i, j \in EventsOf("up_start") :
          i < j => RankOfName(trace[i].name) < RankOfName(trace[j].name)
    /\ \A i, j \in EventsOf("down_start") :
          i < j => RankOfName(trace[i].name) > RankOfName(trace[j].name)

\* C9: the user actions of a leg never overlap: an action is started only
\* when every action before it on the path has completed
C9_Sequential ==
    \A j, k \in DOMAIN elems :
        (j < k /\ elems[k] # "new") => elems[j] = "done"

\* C10: the ledger write of a leg happens at most once, when no user action
\* of the leg is still running and never before a later one is started; in
\* refresh() delete_many returns before any up starts and before insert_many
C10_LedgerWriteLast ==
    /\ Cardinality(EventsOf("insert_many")) <= 1
    /\ Cardinality(EventsOf("delete_many")) <= 1
    /\ \A i \in EventsOf("insert_many") \union EventsOf("delete_many") : trace[i].open = {}
    /\ \A i \in EventsOf("insert_many") : \A j \in DOMAIN trace :
          j > i => trace[j].op \notin {"up_start", "up_err"}
    /\ \A i \in EventsOf("delete_many") : \A j \in DOMAIN trace :
          j > i => trace[j].op \notin {"down_start", "down_err"}
    /\ \A i \in EventsOf("delete_many") :
          \A j \in EventsOf("up_start") \union EventsOf("insert_many") : i < j

\* a refresh() of two or more applied migrations has written the ledger in
\* both legs, with actions that ran while an earlier one was suspended
C10_Witness ==
    /\ Finished("Refresh", None)
    /\ Len(collected) >= 2
    /\ EventsOf("delete_many") # {} /\ EventsOf("insert_many") # {}
    /\ \E i \in EventsOf("up_start") : trace[i].open # {}
    /\ \E i \in EventsOf("down_start") : trace[i].open # {}

\* the ledger that the invocation found, every accepted delete applied
SettledAtStart == ApplyAll(start.points, start.pending)

\* the handles of the entries exec collected
CollectedIds == {collected[i].id : i \in DOMAIN collected}

\* C11: once a user up (down) action of a leg has returned an error, the
\* invocation has returned Err, no insert_many (delete_many) was issued for
\* that leg, and the ledger holds what it held when the leg started: for a
\* Down leg and for up() the ledger the invocation found, for the Up leg of
\* refresh() that ledger less the records its Down leg deleted
C11_NoWriteOnActionError ==
    /\ EventsOf("down_err") # {} =>
          /\ pc = "idle" /\ result = "err"
          /\ EventsOf("delete_many") = {}
          /\ Settled = SettledAtStart
    /\ EventsOf("up_err") # {} =>
          /\ pc = "idle" /\ result = "err"
          /\ EventsOf("insert_many") = {}
          /\ Settled = IF direction = "Refresh"
                       THEN DeletePoints(SettledAtStart, CollectedIds)
                       ELSE SettledAtStart

\* an up action failed after another action of the same leg had succeeded,
\* with records in the ledger
C11_Witness ==
    /\ EventsOf("up_err") # {}
    /\ \E j \in DOMAIN elems : elems[j] = "done"
    /\ Settled # {}
    /\ pc = "idle" /\ result = "err"

\* the lines of a status() report that has one line per declared migration,
\* root first, with Applied for the names retrieve() returned
ForwardReport(pts) ==
    [k \in 1..Len(decl) |->
        [name   |-> NameOf[k],
         status |-> IF NameOf[k] \in LedgerNames(pts) THEN "Applied" ELSE "Pending"]]

\* C12: a successful status() prints one line per declared migration, root
\* to head, each Applied iff its name is in the ledger (A=Applied,
\* B=Applied, C=Pending for a <- b <- c with the ledger {A, B})
C12_StatusReport ==
    (pc = "idle" /\ result = "ok" /\ direction = "Status") =>
        printed = ForwardReport(start.points)

\* ------------------------------------------------ claims about the graph
Reverse(s) == [i \in DOMAIN s |-> s[Len(s) + 1 - i]]

\* the declared set has distinct revision ids, one migration without a
\* down_revision, and every other one pointing at a declared id of its own
Chainlike(d) ==
    /\ Len(d) >= 1
    /\ \A i, j \in DOMAIN d :
          i # j => /\ d[i].revision # d[j].revision
                   /\ d[i].down_revision # d[j].down_revision
    /\ \E i \in DOMAIN d : d[i].down_revision = None
    /\ \A i \in DOMAIN d :
          d[i].down_revision \in {None} \union {d[j].revision : j \in DOMAIN d}

\* the ways to read the declared set as one linear chain r1 <- ... <- rN:
\* o[k] is the position at which rk was declared (at most one such o)
ChainOrders(d) ==
    IF ~Chainlike(d) THEN {}
    ELSE {o \in [DOMAIN d -> DOMAIN d] :
             /\ \A i, j \in DOMAIN d : i # j => o[i] # o[j]
             /\ d[o[1]].down_revision = None
             /\ \A k \in 2..Len(d) : d[o[k]].down_revision = d[o[k - 1]].revision}

\* C13: for a linear chain r1 <- ... <- rN given to try_from in any insertion
\* order, try_from succeeds, forward_path(Some(r1), rN) returns exactly
\* [r1, ..., rN] and backward_path(Some(rN), None) exactly [rN, ..., r1]
C13_ChainRoundTrip ==
    query.op \in {"try_from", "forward_path", "backward_path"} =>
        \A o \in ChainOrders(decl) :
            LET r1 == decl[o[1]].revision
                rN == decl[o[Len(decl)]].revision
            IN /\ query.op = "try_from" => answer.ret = "ok"
               /\ (query.op = "forward_path" /\ query.current = r1 /\ query.target = rN)
                     => answer = [ret |-> "ok", val |-> o]
               /\ (query.op = "backward_path" /\ query.current = rN /\ query.target = None)
                     => answer = [ret |-> "ok", val |-> Reverse(o)]

\* a chain of three declared neither root-first nor head-last has been
\* walked from its root to its head
C13_Witness ==
    /\ Len(decl) = 3
    /\ decl[1].down_revision # None
    /\ \E o \in ChainOrders(decl) :
          /\ o[3] # 3
          /\ query = [op |-> "forward_path", current |-> decl[o[1]].revision,
                      target |-> decl[o[3]].revision]
          /\ answer = [ret |-> "ok", val |-> o]

\* the nodes of a graph that have no child / no parent
Childless(nodes) == {i \in DOMAIN nodes : nodes[i].children = <<>>}
Parentless(nodes) == {i \in DOMAIN nodes : nodes[i].parent = NoIx}

\* C14: try_from succeeds only when exactly one node has no children and
\* exactly one node has no parent
C14_OneHeadOneRoot ==
    IsGraph(GRAPH) =>
        /\ Cardinality(Childless(GRAPH.nodes)) = 1
        /\ Cardinality(Parentless(GRAPH.nodes)) = 1

\* the declared migrations as try_from links them, whatever it then returns
Linked == GraphNodes(Annotate(<<>>))

\* C15: try_from returns Err(NotFound("head")) when, after linking, every
\* declared node has a child (the 3-cycle A(down=c), B(down=a), C(down=b)
\* among them) and only then: a graph it returns has a childless node, and
\* head() reads the first of them
C15_NoHeadIsError ==
    /\ GRAPH = GraphErr => Childless(Linked) = {}
    /\ IsGraph(GRAPH) =>
          /\ Childless(GRAPH.nodes) # {}
          /\ GRAPH.head_ix = Min(Childless(GRAPH.nodes))
          /\ head(GRAPH) = GRAPH.nodes[GRAPH.head_ix].revision

\* try_from has refused the 3-cycle A(down=c), B(down=a), C(down=b)
C15_Witness ==
    /\ Len(decl) = 3
    /\ [i \in 1..3 |-> decl[i].revision] = <<"a", "b", "c">>
    /\ [i \in 1..3 |-> decl[i].down_revision] = <<"c", "a", "b">>
    /\ GRAPH = GraphErr
    /\ answer.ret = "err"

\* --------------------------------------------- claims about unknown targets
\* C16: up(to=r) with r not declared returns an error value (it does not
\* panic), invokes no user up action and inserts nothing into the ledger
C16_UnknownUpIsError ==
    (direction = "Up" /\ to = UnknownRev) =>
        /\ EventsOf("up_start") = {}
        /\ EventsOf("insert_many") = {}
        /\ pc = "idle" => result = "err"

\* C17: down(to=r) with r not declared returns an error, invokes no user
\* down action and deletes nothing: it is not run as a rollback to the root
C17_UnknownDownIsError ==
    (direction = "Down" /\ to = UnknownRev) =>
        /\ EventsOf("down_start") = {}
        /\ EventsOf("delete_many") = {}
        /\ pc = "idle" => result = "err"

\* ----------------------------------------------- claims about the ledger
\* retrieve() has just answered, right after a successful insert_many of the
\* single name n that no record carried before
InsertedThenRetrieved(n) ==
    /\ query.op = "retrieve" /\ answer.ret = "ok"
    /\ query.prev = [op |-> "insert_many", arg |-> <<n>>, ret |-> "ok"]
    /\ Cardinality({p \in start.points : p.name = n}) = 1

\* C18: insert_many([name]) of a name not yet in the ledger, followed by
\* retrieve(), yields a mapping that contains name, mapped to the identifier
\* of the inserted record
C18_InsertThenRetrieve ==
    \A n \in NewNames \union Range(RecordName) :
        InsertedThenRetrieved(n) =>
            /\ n \in DOMAIN answer.val
            /\ [id |-> answer.val[n], name |-> n] \in start.points

\* an ensure() step of a runner whose previous call was a successful ensure()
SecondEnsure ==
    /\ query.op = "ensure" /\ answer.ret = "ok"
    /\ invocations' = invocations + 1
    /\ query'.op = "ensure"

\* C19: the ensure() that follows a successful ensure() finds the collection,
\* succeeds whenever the store answers, and changes nothing: the collection
\* is not created again and no record is removed
C19_EnsureIdempotent ==
    [][SecondEnsure =>
          /\ collection
          /\ UNCHANGED storeVars
          /\ query'.up => answer'.ret = "ok"]_vars

\* two ensure() calls in a row have succeeded on a ledger that holds records
C19_Witness ==
    /\ query.op = "ensure" /\ answer.ret = "ok"
    /\ query.prev = [op |-> "ensure", arg |-> <<>>, ret |-> "ok"]
    /\ start.collection
    /\ Cardinality(points) >= 2

\* ---------------------------------------------- claims about the context
\* the insert_resource calls for the type of call i made before it
InsertsBefore(i) ==
    {j \in 1..(i - 1) : trace[j].op = "insert_resource" /\ trace[j].type = trace[i].type}

\* C20: resources are keyed by type: resource<T>() returns the value of the
\* latest insert_resource<T>, whatever was inserted for other types and
\* whatever was looked up in between, and the ResourceMissing error when T
\* was never inserted; the map holds exactly the types inserted
C20_ResourceByType ==
    /\ \A i \in DOMAIN trace :
          trace[i].op = "resource" =>
              trace[i].ret = IF InsertsBefore(i) = {}
                             THEN [ret |-> "err", val |-> "Resource"]
                             ELSE [ret |-> "ok", val |-> trace[Max(InsertsBefore(i))].arg]
    /\ DOMAIN resources =
          {trace[i].type : i \in {j \in DOMAIN trace : trace[j].op = "insert_resource"}}

\* T1 was given v and then w, and resource<T1>() has returned w
C20_Witness ==
    /\ Len(trace) = 3
    /\ trace[1] = [op |-> "insert_resource", type |-> "T1", arg |-> "v", ret |-> Unit]
    /\ trace[2] = [op |-> "insert_resource", type |-> "T1", arg |-> "w", ret |-> Unit]
    /\ trace[3] = [op |-> "resource", type |-> "T1", arg |-> <<>>,
                   ret |-> [ret |-> "ok", val |-> "w"]]

\* ---------------------------------------------- claims about the metadata
\* the moment a date text denotes: a date without a time is its midnight
Instant(date) == IF Len(date) = 1 THEN 2 * date[1] ELSE 2 * date[1] + date[3]

\* C21: latest_revision() returns a declared migration such that no declared
\* migration has a strictly later date, and the Missing error (no panic)
\* when nothing is declared
C21_LatestByDate ==
    query.op = "latest_revision" =>
        IF decl = <<>> THEN answer = [ret |-> "err", val |-> "Missing"]
        ELSE /\ answer.ret = "ok"
             /\ answer.val \in DOMAIN decl
             /\ \A j \in DOMAIN decl :
                   Instant(decl[j].date) <= Instant(decl[answer.val].date)

\* ------------------------------------- claims about repeated invocations
\* the names on the path of the running invocation, in path order
PathNames ==
    LET path == ExecPath(GRAPH, direction, to)
    IN [i \in DOMAIN path |-> GRAPH.nodes[path[i]].migration.runner.name]

\* the path entries an invocation has to run, going by what its own
\* retrieve() returned: Up the names absent from it, Down and Refresh the
\* names present in it
DueNames ==
    SelectSeqBy(PathNames,
                {i \in DOMAIN PathNames :
                    IF direction = "Up" THEN PathNames[i] \notin DOMAIN applied0
                    ELSE PathNames[i] \in DOMAIN applied0})

\* C22: in every invocation, a later one of the same process included, the
\* entries that run are the path entries selected by the ledger contents
\* that this invocation's own retrieve() returned
C22_FilterByOwnRetrieve ==
    (pc \in {"leg_ensure", "poll"} /\ direction \in Directions) =>
        [i \in DOMAIN collected |-> collected[i].runner.name] = DueNames

\* C23: an up(to=none) issued right after a successful up(to=none) of the
\* same process invokes no user up action and leaves the ledger unchanged
C23_UpIdempotent ==
    (past.up /\ direction = "Up" /\ to = None) =>
        /\ EventsOf("up_start") = {}
        /\ EventsOf("insert_many") = {}
        /\ Settled = SettledAtStart

\* C24: after any sequence of successful invocations of one process that
\* found an empty ledger, the ledger holds at most one record per name, and
\* the handles passed to delete_many are those of records in the ledger
C24_OneRecordPerName ==
    (past.clean /\ pc = "idle" /\ result = "ok") =>
        /\ \A p, q \in Settled : p.name = q.name => p.id = q.id
        /\ EventsOf("delete_many") # {} =>
              CollectedIds \subseteq {p.id : p \in SettledAtStart}

\* ------------------------------------ claims about what try_from accepts
\* C25: for a valid linear chain given to try_from in any insertion order,
\* queue() returns the revision id of the one node that has no parent
C25_QueueIsRoot ==
    (query.op = "try_from" /\ IsGraph(GRAPH)) =>
        \A o \in ChainOrders(decl) : queue(GRAPH) = decl[o[1]].revision

\* C26: try_from fails when some declared migration has a down_revision
\* that no declared migration has as its revision id
C26_UnknownParentFails ==
    (query.op = "try_from"
        /\ \E i \in DOMAIN decl :
              decl[i].down_revision \notin {None} \union DeclaredRevs) =>
        /\ ~IsGraph(GRAPH)
        /\ answer.ret = "err"

\* C27: try_from fails when two declared migrations share a revision id;
\* in every graph it returns the index maps each node's revision id to the
\* node's own position and get(rev) is the migration declared with rev
C27_UniqueRevisions ==
    query.op = "try_from" =>
        /\ (\E i, j \in DOMAIN decl : i # j /\ decl[i].revision = decl[j].revision)
              => ~IsGraph(GRAPH)
        /\ IsGraph(GRAPH) =>
              \A i \in DOMAIN GRAPH.nodes :
                 /\ ix(GRAPH, GRAPH.nodes[i].revision) = i
                 /\ get(GRAPH, GRAPH.nodes[i].revision) = GRAPH.nodes[i].migration

\* ------------------------------------------- claims about the two paths
\* forward_path(None, t) has been asked for a declared revision t
AskedForwardFromNone ==
    /\ query.op = "forward_path"
    /\ query.current = None
    /\ query.target \in DeclaredRevs

\* C28: forward_path(from, to) with from = none returns the empty path,
\* for every graph and every declared revision to
C28_ForwardFromNoneEmpty ==
    AskedForwardFromNone => answer = [ret |-> "ok", val |-> <<>>]

\* C28 as the code has it: forward_path(from, to) with from = none is not
\* empty, it returns the path of one node, and that node is to
C28_ForwardFromNoneIsTarget ==
    AskedForwardFromNone =>
        /\ answer.ret = "ok"
        /\ Len(answer.val) = 1
        /\ GRAPH.nodes[answer.val[1]].revision = query.target

\* forward_path(None, t) has returned on a graph of three nodes, t being
\* neither the first node nor the head
C28_Witness ==
    /\ AskedForwardFromNone
    /\ Len(GRAPH.nodes) = 3
    /\ ix(GRAPH, query.target) \notin {1, GRAPH.head_ix}
    /\ answer = [ret |-> "ok", val |-> <<ix(GRAPH, query.target)>>]

\* C29: for every graph and every declared revision t, forward_path(None, t)
\* is exactly [t]; on a graph of one node a, head() = queue() = a and
\* forward_path(None, a) = backward_path(Some(a), None) = [a]
C29_SingleNodePaths ==
    /\ AskedForwardFromNone =>
          answer = [ret |-> "ok", val |-> <<ix(GRAPH, query.target)>>]
    /\ (IsGraph(GRAPH) /\ Len(GRAPH.nodes) = 1) =>
          LET a == decl[1].revision
          IN /\ head(GRAPH) = a
             /\ queue(GRAPH) = a
             /\ GRAPH.nodes[1].revision = a
             /\ (query.op = "forward_path" /\ query.current = None
                    /\ query.target = a) => answer = [ret |-> "ok", val |-> <<1>>]
             /\ (query.op = "backward_path" /\ query.current = a
                    /\ query.target = None) => answer = [ret |-> "ok", val |-> <<1>>]

\* on the graph of the single migration a, backward_path(Some(a), None) has
\* returned [a]
C29_Witness ==
    /\ IsGraph(GRAPH)
    /\ Len(GRAPH.nodes) = 1
    /\ head(GRAPH) = "a"
    /\ queue(GRAPH) = "a"
    /\ query = [op |-> "backward_path", current |-> "a", target |-> None]
    /\ answer = [ret |-> "ok", val |-> <<1>>]

RECURSIVE Ancestry(_, _, _)
\* the nodes met going from the nodes of S to their parents, S included
Ancestry(g, S, fuel) ==
    IF fuel = 0 THEN S
    ELSE Ancestry(g, S \union ({g.nodes[i].parent : i \in S} \ {NoIx}), fuel - 1)

\* the positions o[k], o[k-1], ..., o[j+1] of a chain read through o
Descent(o, k, j) == [i \in 1..(k - j) |-> o[k + 1 - i]]

\* C30: backward_path(Some(x), stop) returns x followed by its successive
\* parents; with stop a declared ancestor of x it ends at the child of stop,
\* with stop = x it is empty, with stop none it ends at the root inclusive;
\* for the chain a <- b <- c, backward_path(c, a) = [c, b]
C30_BackwardPath ==
    (query.op = "backward_path" /\ query.current \in DeclaredRevs) =>
        LET x == ix(GRAPH, query.current)
            stop == IF query.target = None THEN NoIx ELSE ix(GRAPH, query.target)
            up == Ancestry(GRAPH, {x}, Len(GRAPH.nodes))
            path == answer.val
            n == Len(path)
        IN /\ answer.ret \in {"ok", "never"}
           \* it fails to return only when the parents of x go round in a
           \* circle that stop is not on
           /\ answer.ret = "never" <=>
                 /\ stop \notin up
                 /\ \A i \in up : GRAPH.nodes[i].parent # NoIx
           /\ answer.ret = "ok" =>
                 /\ stop = x <=> path = <<>>
                 /\ n > 0 => path[1] = x
                 /\ \A i \in 1..n : path[i] # stop
                 /\ \A i \in 1..(n - 1) : path[i + 1] = GRAPH.nodes[path[i]].parent
                 /\ n > 0 => GRAPH.nodes[path[n]].parent \in {stop, NoIx}
                 /\ (n > 0 /\ stop \in up) => GRAPH.nodes[path[n]].parent = stop
                 /\ (n > 0 /\ stop = NoIx) => GRAPH.nodes[path[n]].parent = NoIx
           /\ \A o \in ChainOrders(decl) :
                 \A k \in DOMAIN decl :
                    query.current = decl[o[k]].revision =>
                       /\ query.target = None =>
                             answer = [ret |-> "ok", val |-> Descent(o, k, 0)]
                       /\ \A j \in 1..k :
                             query.target = decl[o[j]].revision =>
                                answer = [ret |-> "ok", val |-> Descent(o, k, j)]

\* on the chain a <- b <- c, backward_path(Some(c), Some(a)) has returned
\* [c, b]
C30_Witness ==
    /\ [i \in DOMAIN decl |-> decl[i].revision] = <<"a", "b", "c">>
    /\ [i \in DOMAIN decl |-> decl[i].down_revision] = <<None, "a", "b">>
    /\ query = [op |-> "backward_path", current |-> "c", target |-> "a"]
    /\ answer = [ret |-> "ok", val |-> <<3, 2>>]

\* C31: for every graph try_from accepts and declared revisions from and to,
\* forward_path(Some(from), to) is a contiguous successor chain: it starts
\* at from, ends at to, and each element is the parent of the next one
C31_ForwardContiguous ==
    (query.op = "forward_path" /\ query.current \in DeclaredRevs
        /\ query.target \in DeclaredRevs /\ answer.ret = "ok") =>
        LET path == answer.val
            n == Len(path)
        IN /\ n > 0
           /\ path[1] = ix(GRAPH, query.current)
           /\ path[n] = ix(GRAPH, query.target)
           /\ \A i \in 1..(n - 1) : GRAPH.nodes[path[i + 1]].parent = path[i]

\* C32: forward_path and backward_path return, with a path no longer than
\* the number of nodes, on every graph try_from accepts and for all
\* declared arguments, a parent cycle next to a childless node included
C32_PathsTerminate ==
    (query.op \in {"forward_path", "backward_path"}
        /\ query.current \in DeclaredRevs
        /\ query.target \in DeclaredRevs \union
              (IF query.op = "backward_path" THEN {None} ELSE {})) =>
        /\ answer.ret = "ok"
        /\ Len(answer.val) <= Len(GRAPH.nodes)

\* ------------------------------------------- claims about the two legs
\* C33: in every graph build_graph produces an entry is Applied exactly
\* when it has a ledger handle; every entry the Down or Refresh filter
\* keeps has a handle, and run_down never fails with Graph(NotFound) for a
\* missing handle: a down element fails only by the Err of its user action
C33_AppliedHasHandle ==
    /\ IsGraph(GRAPH) =>
          \A i \in DOMAIN GRAPH.nodes :
             GRAPH.nodes[i].migration.status = "Applied"
                <=> GRAPH.nodes[i].migration.id # NoId
    /\ direction \in {"Down", "Refresh"} =>
          /\ \A i \in DOMAIN collected : collected[i].id # NoId
          /\ leg = "down" =>
                \A i \in DOMAIN elems :
                   elems[i] = "failed" =>
                      \E e \in EventsOf("down_err") :
                         trace[e].name = collected[i].runner.name

\* a later invocation of the process, working from the cached graph, has
\* started the down actions of two kept entries
C33_Witness ==
    /\ invocations = 2
    /\ direction \in {"Down", "Refresh"}
    /\ leg = "down"
    /\ Len(collected) >= 2
    /\ Cardinality(EventsOf("down_start")) >= 2

\* the position on the filtered path of the migration called name
PlaceOf(name) == CHOOSE i \in DOMAIN collected : collected[i].runner.name = name

\* C34: a failing user action aborts the leg at once: when the action of
\* the k-th migration on the path returns an error, the action of no
\* migration after position k has been started, and none is started later
C34_ErrorStopsLeg ==
    \A l \in {"down", "up"} :
       \A e \in EventsOf(l \o "_err") :
          \A b \in EventsOf(l \o "_start") :
             PlaceOf(trace[b].name) <= PlaceOf(trace[e].name)

\* C35: when ensure() or retrieve() fails at the start of an invocation, or
\* graph construction fails, the invocation returns the error having selected
\* no path entry: no user action was invoked, no insert_many or delete_many
\* issued, the ledger is as it was; and in refresh() an up action is invoked
\* only after a Down leg without error whose delete_many was made
C35_ErrorShortCircuits ==
    /\ (pc = "idle" /\ result = "err" /\ direction \in Directions
           /\ collected = <<>>) =>
          /\ trace = <<>>
          /\ Settled = SettledAtStart
    /\ (direction = "Refresh" /\ EventsOf("up_start") # {}) =>
          /\ EventsOf("down_err") = {}
          /\ EventsOf("delete_many") # {}
          /\ \A e \in EventsOf("up_start") :
                \E w \in EventsOf("delete_many") : w < e

\* build_graph has failed in an invocation that found a record in the ledger
C35_Witness ==
    /\ decl = Looped
    /\ pc = "idle"
    /\ result = "err"
    /\ direction = "Refresh"
    /\ applied0 # <<>>
    /\ ~IsGraph(GRAPH)

\* C36: in refresh() the Up leg invokes up on exactly the migrations whose
\* down the Down leg of the same invocation invoked; a migration that was
\* Pending when refresh() started (its retrieve() has no record of it) has
\* neither its down nor its up invoked and is not recorded by refresh()
C36_RefreshSameEntries ==
    (direction = "Refresh" /\ pc # "retrieve") =>
        /\ {trace[e].name : e \in EventsOf("up_start")}
              \subseteq {trace[e].name : e \in EventsOf("down_start")}
        /\ (pc = "idle" /\ result = "ok") =>
              {trace[e].name : e \in EventsOf("up_start")}
                 = {trace[e].name : e \in EventsOf("down_start")}
        /\ \A name \in DeclaredNames \ DOMAIN applied0 :
              /\ \A e \in EventsOf("down_start") \union EventsOf("up_start") :
                    trace[e].name # name
              /\ \A p \in points : p.name = name => p \in start.points

\* ------------------------------------------- claims about the ledger calls
\* C38: retrieve() returns an entry for every record stored in the ledger
\* collection, however many it holds: no recorded migration is left out
C38_RetrieveAll ==
    (query.op = "retrieve" /\ answer.ret = "ok") =>
        \A p \in start.points : p.name \in DOMAIN answer.val

\* C39: delete_many returns success only once the deletion is applied, as
\* insert_many does for insertion: a retrieve() issued after delete_many
\* returned holds none of the deleted handles, and one issued after
\* insert_many returned holds every inserted name
C39_WritesAcknowledged ==
    (query.op = "retrieve" /\ answer.ret = "ok" /\ query.prev.ret = "ok") =>
        /\ query.prev.op = "delete_many" =>
              \A n \in DOMAIN answer.val : answer.val[n] \notin query.prev.arg
        /\ query.prev.op = "insert_many" =>
              Range(query.prev.arg) \subseteq DOMAIN answer.val

\* the insert_resources calls for the type of call i made before it
ManyBefore(i) ==
    {j \in 1..(i - 1) : trace[j].op = "insert_resources" /\ trace[j].type = trace[i].type}

\* C40: after insert_resources(vs) with a non-empty vs of values of type R,
\* resource<R>() succeeds and returns an element of vs (the last inserted)
C40_InsertResourcesVisible ==
    \A i \in DOMAIN trace :
       (trace[i].op = "resource" /\ ManyBefore(i) # {}
           /\ \A j \in InsertsBefore(i) : j < Max(ManyBefore(i))) =>
          LET vs == trace[Max(ManyBefore(i))].arg
          IN trace[i].ret = [ret |-> "ok", val |-> vs[Len(vs)]]

\* ------------------------------------------- claims about the scroll page
\* the identifier texts that are UUIDs, with the UUID each denotes
UuidOf == [t \in {<<"0", "1">>, <<"0", "a">>, <<"0", "A">>} |->
              IF t = <<"0", "1">> THEN 1 ELSE 10]

\* a record retrieve() has to report: a UUID identifier and a payload of a
\* name and a time
WellFormed(point) ==
    /\ point.id.kind = "uuid"
    /\ point.id.text \in DOMAIN UuidOf
    /\ point.payload.name.kind = "string"
    /\ point.payload.applied_at = JsonString(Stamp)

WellFormedIn(page) == {i \in DOMAIN page : WellFormed(page[i])}

\* C37: retrieve() never fails because of a malformed record: a record with
\* a numeric or unparseable identifier or an undecodable payload is omitted,
\* and every other record of the page is in the result under its name with
\* its own UUID
C37_MalformedOmitted ==
    (query.op = "scroll" /\ answer # NoAnswer) =>
        LET page == query.result
        IN /\ answer.ret = "ok" <=> query.up
           /\ answer.ret = "ok" =>
                 /\ DOMAIN answer.val \subseteq
                       {page[i].payload.name.text : i \in WellFormedIn(page)}
                 /\ \A i \in WellFormedIn(page) :
                       /\ page[i].payload.name.text \in DOMAIN answer.val
                       /\ answer.val[page[i].payload.name.text] = UuidOf[page[i].id.text]

\* C37 as the code has it: the result is keyed by name, so of the
\* well-formed records of the page that share a name the last one is
\* reported, with its UUID; malformed records are omitted and never fail
\* the call
C37_LastOfEachName ==
    (query.op = "scroll" /\ answer # NoAnswer) =>
        LET page == query.result
            good == WellFormedIn(page)
        IN /\ answer.ret = "ok" <=> query.up
           /\ answer.ret = "ok" =>
                 /\ DOMAIN answer.val = {page[i].payload.name.text : i \in good}
                 /\ \A n \in DOMAIN answer.val :
                       answer.val[n] =
                          UuidOf[page[Max({i \in good :
                                             page[i].payload.name.text = n})].id.text]

\* a page of a record with a numeric identifier and a well-formed record
\* has been read: only the second is reported
C37_Witness ==
    /\ query.op = "scroll"
    /\ Len(query.result) = 2
    /\ query.result[1] = [id |-> [kind |-> "num", text |-> <<"1">>],
                          payload |-> [name |-> JsonString("A"),
                                       applied_at |-> JsonString(Stamp)]]
    /\ query.result[2] = [id |-> [kind |-> "uuid", text |-> <<"0", "A">>],
                          payload |-> [name |-> JsonString("B"),
                                       applied_at |-> JsonString(Stamp)]]
    /\ answer = [ret |-> "ok", val |-> [n \in {"B"} |-> 10]]

====
